---------------------------- MODULE Spec2Model ----------------------------
(***************************************************************************)
(* Model of the two annotation converters of the repository:               *)
(*   dataturks_to_PascalVOC_achbogga.py        (labelled JSON -> VOC XML)  *)
(*   create_tf_records_from_pascal_voc_annotations_achbogga.py             *)
(*                                             (VOC XML -> tf.Example)     *)
(*                                                                         *)
(* Numbers.  Python floats are modelled as exact rationals <<n, d>> in     *)
(* lowest terms with d > 0; Python ints as integers.  A text field of an   *)
(* XML document is a record that says whether the text is the decimal      *)
(* form of an int ("10"), of a float ("10.0") or any other text, so that   *)
(* str(), int() and float() are modelled by what they accept and return.   *)
(***************************************************************************)
EXTENDS Integers, Sequences, FiniteSets, TLC

VARIABLES
    \* ---- get_xml_for_bbx called on its own
    bbx_label, bbx_data, width, height, bbx_xml,
    \* ---- one labelled item through convert_to_PascalVOC and back
    item, xml_file, example,
    \* ---- dict_to_tf_example called on its own
    data, label_map_dict, ignore_difficult_instances, tf_example,
    \* ---- the two main() runs
    prog, pc, lines, validation_split, validation_indices, idx, success,
    calls, summary, examples_list, writer

bbxVars  == <<bbx_label, bbx_data, width, height, bbx_xml>>
pipeVars == <<item, xml_file, example>>
dictVars == <<data, tf_example>>
flagVars == <<label_map_dict, ignore_difficult_instances>>
vocVars  == <<lines, validation_split, validation_indices, success, calls, summary>>
recVars  == <<examples_list, writer>>
runVars  == <<prog, pc, idx>>
vars     == <<bbxVars, pipeVars, dictVars, flagVars, vocVars, recVars, runVars>>

---------------------------------------------------------------------------
(* Bounds of the model *)

MaxLines  == 3   \* lines of the dataturks JSON file
MaxFiles  == 2   \* files listed in the annotations directory
MaxObjs   == 2   \* <object> elements of one hand-written VOC file
MaxAnn    == 2   \* entries of one item's annotation array

---------------------------------------------------------------------------
(* Numbers and text *)

RECURSIVE GCD(_, _)
GCD(a, b) == IF b = 0 THEN a ELSE GCD(b, a % b)

Abs(n) == IF n < 0 THEN -n ELSE n

\* the float n/d, in lowest terms
Rat(n, d) ==
    LET g == GCD(Abs(n), Abs(d))
        s == IF d < 0 THEN -1 ELSE 1
    IN  <<(s * n) \div g, (s * d) \div g>>

RLess(a, b) == a[1] * b[2] < b[1] * a[2]
RLeq(a, b)  == a[1] * b[2] <= b[1] * a[2]

\* int * float and float / int
RTimes(k, r) == Rat(k * r[1], r[2])
RDiv(r, k)   == Rat(r[1], r[2] * k)

\* Python's int(x) of a float: truncation towards zero
Trunc(r) == IF r[1] >= 0 THEN r[1] \div r[2] ELSE -((-r[1]) \div r[2])

\* Python's min(a, b, c, d) / max(a, b, c, d): the first smallest / largest
PyMin4(a, b, c, d) ==
    LET m1 == IF RLess(b, a) THEN b ELSE a
        m2 == IF RLess(c, m1) THEN c ELSE m1
    IN  IF RLess(d, m2) THEN d ELSE m2

PyMax4(a, b, c, d) ==
    LET m1 == IF RLess(a, b) THEN b ELSE a
        m2 == IF RLess(m1, c) THEN c ELSE m1
    IN  IF RLess(m2, d) THEN d ELSE m2

\* text of an XML element
Txt(s)      == [kind |-> "text",  s |-> s,  n |-> 0,    d |-> 1]
StrInt(k)   == [kind |-> "int",   s |-> "", n |-> k,    d |-> 1]
StrFloat(r) == [kind |-> "float", s |-> "", n |-> r[1], d |-> r[2]]

Unspecified == Txt("Unspecified")

\* str(v) of a Python number v = [int |-> BOOLEAN, val |-> rational]
PyInt(k)   == [int |-> TRUE,  val |-> <<k, 1>>]
PyFloat(r) == [int |-> FALSE, val |-> r]
Str(v)     == IF v.int THEN StrInt(v.val[1]) ELSE StrFloat(v.val)

\* float(t) and int(t) of a text: which texts they accept, and the value
FloatOk(t)  == t.kind \in {"int", "float"}
FloatVal(t) == Rat(t.n, t.d)
IntOk(t)    == t.kind = "int"
IntVal(t)   == t.n

---------------------------------------------------------------------------
(* get_xml_for_bbx *)

\* bbx_data['points']: a list of [x, y] lists (form "pair") or of
\* {"x":, "y":} objects (form "xy"); every coordinate a float
Points(form, pts) == [form |-> form, pts |-> pts]

NoBox == [xmin |-> Unspecified, xmax |-> Unspecified,
          ymin |-> Unspecified, ymax |-> Unspecified]

ObjectXml(name, box) ==
    [name |-> name, pose |-> Unspecified, truncated |-> Unspecified,
     difficult |-> Unspecified, occluded |-> Unspecified, bndbox |-> box]

NoObject == ObjectXml(Txt(""), NoBox)

\* whether the indexing of lines 51-58 / 63-66 succeeds
BoxIndexingOk(p) ==
    IF Len(p.pts) = 4 THEN p.form = "pair"
                      ELSE p.form = "xy" /\ Len(p.pts) >= 2

\* the four numbers computed by lines 49-66
BoxXmin(p, w, h) ==
    IF Len(p.pts) = 4
    THEN PyFloat(RTimes(w, PyMin4(p.pts[1][1], p.pts[2][1], p.pts[3][1], p.pts[4][1])))
    ELSE PyInt(Trunc(RTimes(w, p.pts[1][1])))

\* faulty variant: the y corner scaled by the width
BoxYminByWidth(p, w, h) ==
    IF Len(p.pts) = 4
    THEN PyFloat(RTimes(w, PyMin4(p.pts[1][2], p.pts[2][2], p.pts[3][2], p.pts[4][2])))
    ELSE PyInt(Trunc(RTimes(w, p.pts[1][2])))

BoxYmin(p, w, h) ==
    IF Len(p.pts) = 4
    THEN PyFloat(RTimes(h, PyMin4(p.pts[1][2], p.pts[2][2], p.pts[3][2], p.pts[4][2])))
    ELSE PyInt(Trunc(RTimes(h, p.pts[1][2])))

BoxXmax(p, w, h) ==
    IF Len(p.pts) = 4
    THEN PyFloat(RTimes(w, PyMax4(p.pts[1][1], p.pts[2][1], p.pts[3][1], p.pts[4][1])))
    ELSE PyInt(Trunc(RTimes(w, p.pts[2][1])))

BoxYmax(p, w, h) ==
    IF Len(p.pts) = 4
    THEN PyFloat(RTimes(h, PyMax4(p.pts[1][2], p.pts[2][2], p.pts[3][2], p.pts[4][2])))
    ELSE PyInt(Trunc(RTimes(h, p.pts[2][2])))

\* get_xml_for_bbx: [ok |-> the call returned, xml |-> the <object> block]
get_xml_for_bbx(label, bbx, w, h) ==
    LET p == bbx.points
    IN
    IF ~BoxIndexingOk(p)
    THEN [ok |-> FALSE, xml |-> NoObject]
    ELSE [ok |-> TRUE,
          xml |-> ObjectXml(Txt(label),
                            [xmin |-> Str(BoxXmin(p, w, h)),
                             xmax |-> Str(BoxXmax(p, w, h)),
                             ymin |-> Str(BoxYmin(p, w, h)),
                             ymax |-> Str(BoxYmax(p, w, h))])]

---------------------------------------------------------------------------
(* convert_to_PascalVOC *)

\* One line of the dataturks file, as json.loads sees it, with what opening
\* the image it names yields:
\*   json       "malformed" (json.loads raises) or "ok"
\*   annotation the value of data['annotation']: null, or an array of entries
\*   content    the file name left of data['content'] by lines 107-115
\*   image      Image.open(filePath): ok or not, its size and its format
Image(ok, size, format) == [ok |-> ok, size |-> size, format |-> format]

Item(json, null, annotation, content, image) ==
    [json |-> json, null |-> null, annotation |-> annotation,
     content |-> content, image |-> image]

\* One entry of the annotation array: {} (empty), or an object with
\* "label" (a string, or an array of strings), "points", an optional
\* "shape", and "imageWidth"/"imageHeight"
LabelStr(s)      == [list |-> FALSE, name |-> s,  names |-> <<>>]
LabelList(names) == [list |-> TRUE,  name |-> "", names |-> names]

Entry(empty, shape, label, points) ==
    [empty |-> empty, shape |-> shape, label |-> label, points |-> points]

NoPoints == Points("pair", <<>>)
EmptyEntry == Entry(TRUE, "absent", LabelList(<<>>), NoPoints)

\* lines 137-140: a single label is treated as a list of one
bbx_labels(bbx) ==
    IF bbx.label.list THEN bbx.label.names ELSE <<bbx.label.name>>

\* faulty variant: the shape tag is not looked at
SkippedEntryOnlyEmpty(bbx) == bbx.empty

\* lines 131-135: the entries the loop passes over
SkippedEntry(bbx) ==
    \/ bbx.empty
    \/ bbx.shape # "absent" /\ bbx.shape # "rectangle"

\* lines 142-143: the blocks of one entry, from its j-th label on
RECURSIVE LabelBlocks(_, _, _, _)
LabelBlocks(bbx, j, w, h) ==
    IF j > Len(bbx_labels(bbx))
    THEN [ok |-> TRUE, objs |-> <<>>]
    ELSE LET one  == get_xml_for_bbx(bbx_labels(bbx)[j], bbx, w, h)
             rest == LabelBlocks(bbx, j + 1, w, h)
         IN  IF one.ok /\ rest.ok
             THEN [ok |-> TRUE, objs |-> <<one.xml>> \o rest.objs]
             ELSE [ok |-> FALSE, objs |-> <<>>]

\* lines 130-143: the blocks of the entries from the i-th on
RECURSIVE EntryBlocks(_, _, _, _)
EntryBlocks(ann, i, w, h) ==
    IF i > Len(ann)
    THEN [ok |-> TRUE, objs |-> <<>>]
    ELSE LET here == IF SkippedEntry(ann[i])
                     THEN [ok |-> TRUE, objs |-> <<>>]
                     ELSE LabelBlocks(ann[i], 1, w, h)
             rest == EntryBlocks(ann, i + 1, w, h)
         IN  IF here.ok /\ rest.ok
             THEN [ok |-> TRUE, objs |-> here.objs \o rest.objs]
             ELSE [ok |-> FALSE, objs |-> <<>>]

\* the <annotation> document of lines 119-145
AnnotationXml(filename, w, h, objs) ==
    [filename |-> filename,
     size |-> [width |-> Str(PyInt(w)), height |-> Str(PyInt(h)),
               depth |-> Unspecified],
     segmented |-> Unspecified,
     object |-> objs]

NoXml == AnnotationXml("", 0, 0, <<>>)

\* convert_to_PascalVOC: the value returned (status), the return statement
\* taken (line 100 "skipped", line 151 "written", line 154 "error") and the
\* document written to xml_out_dir/<fileName>.xml
Converted(status, outcome, xml) ==
    [status |-> status, outcome |-> outcome, xml |-> xml]

\* faulty variant: a skipped item reported as done
SkipReturnsTrue == Converted(TRUE, "skipped", NoXml)

\* lines 99-100
SkipReturn == Converted(FALSE, "skipped", NoXml)

convert_to_PascalVOC(it) ==
    IF it.json # "ok" \/ it.null
    THEN Converted(FALSE, "error", NoXml)               \* lines 97-98 raise
    ELSE IF Len(it.annotation) = 0
    THEN SkipReturn                                     \* lines 98-100
    ELSE IF it.annotation[1].empty
    THEN Converted(FALSE, "error", NoXml)               \* line 102 raises
    ELSE IF ~it.image.ok
    THEN Converted(FALSE, "error", NoXml)               \* line 112 raises
    ELSE LET w == it.image.size[1]
             h == it.image.size[2]
             b == EntryBlocks(it.annotation, 1, w, h)
         IN  IF ~b.ok
             THEN Converted(FALSE, "error", NoXml)      \* line 143 raises
             ELSE Converted(TRUE, "written",
                            AnnotationXml(it.content, w, h, b.objs))

---------------------------------------------------------------------------
(* dict_to_tf_example *)

\* One annotation file as the second converter sees it: the mapping that
\* recursive_parse_xml_to_dict returns for its <annotation> element (each
\* leaf a text, "object" the list of its <object> elements) and what
\* opening image_data_dir/<filename> yields.
VocFile(annotation, image) == [annotation |-> annotation, image |-> image]

\* lines 163-166 of main: the mapping read back from a written document
recursive_parse_xml_to_dict(xml) ==
    [filename |-> xml.filename, size |-> xml.size, object |-> xml.object]

Example(ok, w, h, filename, acc) ==
    [ok |-> ok, width |-> w, height |-> h, filename |-> filename,
     xmin |-> acc.xmin, ymin |-> acc.ymin, xmax |-> acc.xmax, ymax |-> acc.ymax,
     classes_text |-> acc.classes_text, classes |-> acc.classes,
     difficult_obj |-> acc.difficult_obj, truncated |-> acc.truncated,
     poses |-> acc.poses]

\* lines 93-101
EmptyLists ==
    [ok |-> TRUE, xmin |-> <<>>, ymin |-> <<>>, xmax |-> <<>>, ymax |-> <<>>,
     classes_text |-> <<>>, classes |-> <<>>, difficult_obj |-> <<>>,
     truncated |-> <<>>, poses |-> <<>>]

Failed == [EmptyLists EXCEPT !.ok = FALSE]

NoExample == Example(FALSE, 0, 0, "", EmptyLists)

\* faulty variant: ids counted from zero
LabelIdZeroBased(label_map, name) == label_map[name.s] - 1

\* line 117: the id looked up for a name
LabelId(label_map, name) == label_map[name.s]

\* lines 110-119 for one retained object
AppendObject(acc, obj, w, h, label_map, difficult) ==
    IF \/ ~FloatOk(obj.bndbox.xmin) \/ ~FloatOk(obj.bndbox.ymin)
       \/ ~FloatOk(obj.bndbox.xmax) \/ ~FloatOk(obj.bndbox.ymax)
       \/ w = 0 \/ h = 0
       \/ obj.name.kind # "text" \/ obj.name.s \notin DOMAIN label_map
       \/ ~IntOk(obj.truncated)
    THEN Failed
    ELSE [ok |-> TRUE,
          difficult_obj |-> Append(acc.difficult_obj, IF difficult THEN 1 ELSE 0),
          xmin |-> Append(acc.xmin, RDiv(FloatVal(obj.bndbox.xmin), w)),
          ymin |-> Append(acc.ymin, RDiv(FloatVal(obj.bndbox.ymin), h)),
          xmax |-> Append(acc.xmax, RDiv(FloatVal(obj.bndbox.xmax), w)),
          ymax |-> Append(acc.ymax, RDiv(FloatVal(obj.bndbox.ymax), h)),
          classes_text |-> Append(acc.classes_text, obj.name.s),
          classes |-> Append(acc.classes, LabelId(label_map, obj.name)),
          truncated |-> Append(acc.truncated, IntVal(obj.truncated)),
          poses |-> Append(acc.poses, obj.pose.s)]

\* line 104: the object is passed over for its "Unspecified" difficulty
UnspecifiedDifficulty(obj) == obj.difficult = Unspecified

\* faulty variant: the flag is not looked at
IgnoredWheneverDifficult(ignore, difficult) == difficult

\* lines 107-108: the object is passed over as a difficult instance
IgnoredAsDifficult(ignore, difficult) == ignore /\ difficult

\* lines 103-119: the loop from the i-th object on
RECURSIVE ObjectLoop(_, _, _, _, _, _, _)
ObjectLoop(objs, i, acc, w, h, label_map, ignore) ==
    IF ~acc.ok \/ i > Len(objs)
    THEN acc
    ELSE LET obj == objs[i]
         IN  IF UnspecifiedDifficulty(obj)
             THEN ObjectLoop(objs, i + 1, acc, w, h, label_map, ignore)
             ELSE IF ~IntOk(obj.difficult)
             THEN Failed                                 \* line 106 raises
             ELSE LET difficult == IntVal(obj.difficult) # 0
                  IN  IF IgnoredAsDifficult(ignore, difficult)
                      THEN ObjectLoop(objs, i + 1, acc, w, h, label_map, ignore)
                      ELSE ObjectLoop(objs, i + 1,
                                      AppendObject(acc, obj, w, h, label_map, difficult),
                                      w, h, label_map, ignore)

\* dict_to_tf_example: ok is FALSE when the call raises
dict_to_tf_example(file, label_map, ignore) ==
    LET d == file.annotation
    IN  IF \/ ~file.image.ok                             \* lines 82-85 raise
           \/ file.image.format \notin {"JPEG", "PNG"}   \* line 87 raises
           \/ ~IntOk(d.size.width) \/ ~IntOk(d.size.height)
        THEN NoExample
        ELSE LET w   == IntVal(d.size.width)
                 h   == IntVal(d.size.height)
                 acc == ObjectLoop(d.object, 1, EmptyLists, w, h, label_map, ignore)
             IN  IF acc.ok THEN Example(TRUE, w, h, d.filename, acc)
                           ELSE NoExample

---------------------------------------------------------------------------
(* Inputs *)

\* sequences over S of length lo..hi
SeqsOf(S, lo, hi) == UNION {[1..n -> S] : n \in lo..hi}

\* fractional coordinates
Fracs4 == {<<1, 10>>, <<1, 2>>, <<1, 1>>}
Fracs2 == {<<0, 1>>, <<1, 10>>, <<1, 3>>, <<1, 2>>, <<1, 1>>}

\* image sizes <<width, height>>
Sizes == {<<100, 200>>, <<3, 2>>, <<7, 7>>}

FourPairs ==
    {Points("pair", <<<<x0, y0>>, <<x1, y1>>, <<x2, y2>>, <<x3, y3>>>>) :
        x0 \in Fracs4, y0 \in Fracs4, x1 \in Fracs4, y1 \in Fracs4,
        x2 \in Fracs4, y2 \in Fracs4, x3 \in Fracs4, y3 \in Fracs4}

TwoXY ==
    {Points("xy", <<<<x0, y0>>, <<x1, y1>>>>) :
        x0 \in Fracs2, y0 \in Fracs2, x1 \in Fracs2, y1 \in Fracs2}

\* the rectangle (0.1,0.1),(0.5,0.1),(0.5,0.5),(0.1,0.5)
Rect4 == Points("pair", <<<<<<1, 10>>, <<1, 10>>>>, <<<<1, 2>>, <<1, 10>>>>,
                          <<<<1, 2>>, <<1, 2>>>>, <<<<1, 10>>, <<1, 2>>>>>>)
\* the two corners (0.1, 1/3) and (0.5, 1)
Rect2 == Points("xy", <<<<<<1, 10>>, <<1, 3>>>>, <<<<1, 2>>, <<1, 1>>>>>>)
OnePoint == Points("xy", <<<<<<1, 10>>, <<1, 10>>>>>>)

\* points that lines 51-66 cannot index: one {"x":, "y":} object, two
\* [x, y] lists, four {"x":, "y":} objects
BadPoints ==
    {OnePoint, Points("pair", Rect2.pts), Points("xy", Rect4.pts)}

BbxInputs ==
    {Entry(FALSE, "absent", LabelStr("cat"), p) : p \in FourPairs \cup TwoXY \cup BadPoints}

Jpeg100x200 == Image(TRUE, <<100, 200>>, "JPEG")
Gif100x200  == Image(TRUE, <<100, 200>>, "GIF")
MissingImage == Image(FALSE, <<0, 0>>, "")

\* entries of an annotation array
Entries ==
    {EmptyEntry} \cup
    {Entry(FALSE, shape, label, p) :
        shape \in {"absent", "rectangle", "polygon"},
        label \in {LabelStr("cat"), LabelList(<<"cat", "dog">>), LabelList(<<>>)},
        p \in {Rect4, Rect2, OnePoint}}

PipeItems ==
    {Item("ok", FALSE, ann, "a.jpg", img) :
        ann \in SeqsOf(Entries, 0, MaxAnn), img \in {Jpeg100x200, MissingImage}}
    \cup {Item("malformed", FALSE, <<>>, "", MissingImage),
          Item("ok", TRUE, <<>>, "a.jpg", Jpeg100x200)}

CatDog == [n \in {"cat", "dog"} |-> IF n = "cat" THEN 1 ELSE 2]
CatDogBird ==
    [n \in {"cat", "dog", "bird"} |-> IF n = "cat" THEN 1 ELSE IF n = "dog" THEN 2 ELSE 3]
LabelMaps == {CatDog, CatDogBird}

\* <object> elements of hand-written VOC files
IntBox   == [xmin |-> StrInt(10), xmax |-> StrInt(50),
             ymin |-> StrInt(20), ymax |-> StrInt(100)]
FloatBox == [xmin |-> StrFloat(<<1, 2>>), xmax |-> StrFloat(<<75, 1>>),
             ymin |-> StrInt(0), ymax |-> StrFloat(<<401, 2>>)]

VocObject(name, difficult, truncated) ==
    [name |-> Txt(name), pose |-> Txt("Left"), truncated |-> truncated,
     difficult |-> difficult, occluded |-> StrInt(0),
     bndbox |-> IF name = "dog" THEN FloatBox ELSE IntBox]

VocObjects ==
    {VocObject(name, difficult, truncated) :
        name \in {"cat", "dog", "bird"},
        difficult \in {Unspecified, StrInt(0), StrInt(1), Txt("hard")},
        truncated \in {StrInt(0), Unspecified}}

VocAnnotation(objs) ==
    recursive_parse_xml_to_dict(AnnotationXml("a.jpg", 100, 200, objs))

DictFiles ==
    {VocFile(VocAnnotation(objs), img) :
        objs \in SeqsOf(VocObjects, 0, MaxObjs), img \in {Jpeg100x200, Gif100x200}}

\* lines of a dataturks file
OkLine       == Item("ok", FALSE, <<Entry(FALSE, "rectangle", LabelStr("cat"), Rect4)>>,
                     "a.jpg", Jpeg100x200)
SkipLine     == Item("ok", FALSE, <<>>, "b.jpg", Jpeg100x200)
BadJsonLine  == Item("malformed", FALSE, <<>>, "", MissingImage)
NoImageLine  == Item("ok", FALSE, <<Entry(FALSE, "absent", LabelStr("dog"), Rect2)>>,
                     "c.jpg", MissingImage)
BadGeomLine  == Item("ok", FALSE, <<Entry(FALSE, "absent", LabelStr("dog"), OnePoint)>>,
                     "d.jpg", Jpeg100x200)
LineCorpus   == {OkLine, SkipLine, BadJsonLine, NoImageLine, BadGeomLine}

\* --validation_split
Splits == {<<0, 1>>, <<1, 5>>, <<1, 3>>, <<1, 2>>, <<7, 10>>, <<1, 1>>, <<3, 2>>}

\* files of an annotations directory
FileCorpus ==
    {VocFile(VocAnnotation(<<VocObject("cat", StrInt(0), StrInt(0))>>), Jpeg100x200),
     VocFile(VocAnnotation(<<VocObject("cat", StrInt(0), StrInt(1)),
                             VocObject("dog", StrInt(1), StrInt(0))>>), Jpeg100x200),
     VocFile(VocAnnotation(<<VocObject("bird", StrInt(0), StrInt(0))>>), Jpeg100x200),
     VocFile(VocAnnotation(<<VocObject("bird", Unspecified, StrInt(0)),
                             VocObject("dog", StrInt(0), StrInt(0))>>), Jpeg100x200),
     VocFile(VocAnnotation(<<VocObject("dog", StrInt(0), StrInt(0)),
                             VocObject("bird", StrInt(1), StrInt(0))>>), Jpeg100x200),
     VocFile(VocAnnotation(<<VocObject("cat", StrInt(0), StrInt(0))>>), Gif100x200),
     VocFile(VocAnnotation(<<>>), Jpeg100x200),
     VocFile(recursive_parse_xml_to_dict(convert_to_PascalVOC(OkLine).xml), Jpeg100x200)}

---------------------------------------------------------------------------
(* States *)

NotCalled  == [called |-> FALSE, ok |-> FALSE, xml |-> NoObject]
NotWritten == Converted(FALSE, "none", NoXml)
NotEncoded == [called |-> FALSE, ex |-> NoExample]
NoSummary  == [printed |-> FALSE, done |-> 0, ignored |-> 0]
NoWriter   == [opened |-> 0, closed |-> 0, records |-> <<>>]

IdleBbx  == /\ bbx_label = "" /\ bbx_data = EmptyEntry /\ width = 0 /\ height = 0
            /\ bbx_xml = NotCalled
IdlePipe == item = BadJsonLine /\ xml_file = NotWritten /\ example = NotEncoded
IdleDict == data = VocFile(VocAnnotation(<<>>), MissingImage) /\ tf_example = NotEncoded
IdleFlags == label_map_dict = CatDog /\ ignore_difficult_instances = FALSE
IdleVoc  == /\ lines = <<>> /\ validation_split = <<0, 1>> /\ validation_indices = {}
            /\ success = 0 /\ calls = <<>> /\ summary = NoSummary
IdleRec  == examples_list = <<>> /\ writer = NoWriter
IdleRun  == prog = "none" /\ pc = "none" /\ idx = 0

---------------------------------------------------------------------------
(* get_xml_for_bbx called once on every input *)

InitBbx ==
    /\ bbx_label = "cat"
    /\ bbx_data \in BbxInputs
    /\ \E s \in Sizes : width = s[1] /\ height = s[2]
    /\ bbx_xml = NotCalled
    /\ IdlePipe /\ IdleDict /\ IdleFlags /\ IdleVoc /\ IdleRec /\ IdleRun

CallGetXmlForBbx ==
    /\ ~bbx_xml.called
    /\ LET r == get_xml_for_bbx(bbx_label, bbx_data, width, height)
       IN  bbx_xml' = [called |-> TRUE, ok |-> r.ok, xml |-> r.xml]
    /\ UNCHANGED <<bbx_label, bbx_data, width, height, pipeVars, dictVars,
                   flagVars, vocVars, recVars, runVars>>

NextBbx == CallGetXmlForBbx
SpecBbx == InitBbx /\ [][NextBbx]_vars

---------------------------------------------------------------------------
(* One item written by convert_to_PascalVOC and read back by the loop body *)
(* of the second converter's main                                          *)

InitPipe ==
    /\ item \in PipeItems
    /\ xml_file = NotWritten
    /\ example = NotEncoded
    /\ label_map_dict = CatDog
    /\ ignore_difficult_instances \in BOOLEAN
    /\ IdleBbx /\ IdleDict /\ IdleVoc /\ IdleRec /\ IdleRun

Convert ==
    /\ xml_file.outcome = "none"
    /\ xml_file' = convert_to_PascalVOC(item)
    /\ UNCHANGED <<item, example, bbxVars, dictVars, flagVars, vocVars, recVars, runVars>>

ReadBack ==
    /\ xml_file.outcome = "written"
    /\ ~example.called
    /\ example' = [called |-> TRUE,
                   ex |-> dict_to_tf_example(
                            VocFile(recursive_parse_xml_to_dict(xml_file.xml), item.image),
                            label_map_dict, ignore_difficult_instances)]
    /\ UNCHANGED <<item, xml_file, bbxVars, dictVars, flagVars, vocVars, recVars, runVars>>

NextPipe == Convert \/ ReadBack
SpecPipe == InitPipe /\ [][NextPipe]_vars

---------------------------------------------------------------------------
(* dict_to_tf_example called once on every input *)

InitDict ==
    /\ data \in DictFiles
    /\ tf_example = NotEncoded
    /\ label_map_dict = CatDogBird
    /\ ignore_difficult_instances \in BOOLEAN
    /\ IdleBbx /\ IdlePipe /\ IdleVoc /\ IdleRec /\ IdleRun

CallDictToTfExample ==
    /\ ~tf_example.called
    /\ tf_example' = [called |-> TRUE,
                      ex |-> dict_to_tf_example(data, label_map_dict,
                                                ignore_difficult_instances)]
    /\ UNCHANGED <<data, bbxVars, pipeVars, flagVars, vocVars, recVars, runVars>>

NextDict == CallDictToTfExample
SpecDict == InitDict /\ [][NextDict]_vars

---------------------------------------------------------------------------
(* The two main() runs.  prog = "voc": dataturks JSON -> VOC XML;          *)
(* prog = "rec": VOC XML -> tf.Example records.                            *)

Init ==
    /\ prog \in {"voc", "rec"}
    /\ pc = "start"
    /\ idx = 0
    /\ lines = <<>>
    /\ validation_split \in (IF prog = "voc" THEN Splits ELSE {<<0, 1>>})
    /\ validation_indices = {}
    /\ success = 0
    /\ calls = <<>>
    /\ summary = NoSummary
    /\ examples_list = <<>>
    /\ writer = NoWriter
    /\ label_map_dict \in (IF prog = "rec" THEN LabelMaps ELSE {CatDog})
    /\ ignore_difficult_instances \in (IF prog = "rec" THEN BOOLEAN ELSE {FALSE})
    /\ IdleBbx /\ IdlePipe /\ IdleDict

\* ---- dataturks_to_PascalVOC_achbogga.py main

\* lines 158-177: a directory or the JSON file is missing, or the file is empty
VocSetupFails ==
    /\ prog = "voc" /\ pc = "start"
    /\ pc' = "returned"
    /\ UNCHANGED <<prog, idx, bbxVars, pipeVars, dictVars, flagVars, vocVars, recVars>>

\* lines 170-172
VocReadLines ==
    /\ prog = "voc" /\ pc = "start"
    /\ lines' \in SeqsOf(LineCorpus, 1, MaxLines)
    /\ pc' = "sample"
    /\ UNCHANGED <<prog, idx, validation_split, validation_indices, success, calls,
                   summary, bbxVars, pipeVars, dictVars, flagVars, recVars>>

\* faulty variant: rounding to the nearest integer instead of truncating
SampleSizeRounded(n, split) == Trunc(RTimes(1, <<2 * n * split[1] + split[2], 2 * split[2]>>))

\* line 179: int(len(lines)*validation_split)
SampleSize(n, split) == Trunc(RTimes(n, split))

\* line 179: random.sample(range(n), k), any k distinct indices
Samples(n, k) == {S \in SUBSET (0..(n - 1)) : Cardinality(S) = k}

\* lines 179-180; random.sample raises ValueError for k < 0 or k > n
VocSample ==
    /\ prog = "voc" /\ pc = "sample"
    /\ LET n == Len(lines)
           k == SampleSize(n, validation_split)
       IN  IF k < 0 \/ k > n
           THEN /\ pc' = "aborted"
                /\ UNCHANGED <<validation_indices, idx, success>>
           ELSE /\ validation_indices' \in Samples(n, k)
                /\ success' = 0
                /\ idx' = 0
                /\ pc' = "loop"
    /\ UNCHANGED <<prog, lines, validation_split, calls, summary,
                   bbxVars, pipeVars, dictVars, flagVars, recVars>>

\* lines 182-185: the directory the item idx goes to
OutDir(i, validation) == IF i \notin validation THEN "train" ELSE "validation"

\* faulty variant: every item counted, whatever its status
CountEveryItem(n, status) == n + 1

\* lines 186-187
CountSuccess(n, status) == IF status THEN n + 1 ELSE n

\* lines 181-189: one iteration of the loop
VocItem ==
    /\ prog = "voc" /\ pc = "loop" /\ idx < Len(lines)
    /\ LET r == convert_to_PascalVOC(lines[idx + 1])
       IN  /\ calls' = Append(calls, [idx |-> idx,
                                      xml_out_dir |-> OutDir(idx, validation_indices),
                                      status |-> r.status,
                                      outcome |-> r.outcome])
           /\ success' = CountSuccess(success, r.status)
    /\ idx' = idx + 1
    /\ UNCHANGED <<prog, pc, lines, validation_split, validation_indices, summary,
                   bbxVars, pipeVars, dictVars, flagVars, recVars>>

\* line 191: the two numbers of the "Completed" message
Completed(n, done) == [printed |-> TRUE, done |-> done, ignored |-> n - done]

VocSummary ==
    /\ prog = "voc" /\ pc = "loop" /\ idx = Len(lines)
    /\ summary' = Completed(Len(lines), success)
    /\ pc' = "done"
    /\ UNCHANGED <<prog, idx, lines, validation_split, validation_indices, success,
                   calls, bbxVars, pipeVars, dictVars, flagVars, recVars>>

\* ---- create_tf_records_from_pascal_voc_annotations_achbogga.py main

\* line 149
RecOpenWriter ==
    /\ prog = "rec" /\ pc = "start"
    /\ writer' = [writer EXCEPT !.opened = @ + 1]
    /\ pc' = "list"
    /\ UNCHANGED <<prog, idx, examples_list, bbxVars, pipeVars, dictVars, flagVars, vocVars>>

\* lines 151-156
RecListDir ==
    /\ prog = "rec" /\ pc = "list"
    /\ examples_list' \in SeqsOf(FileCorpus, 0, MaxFiles)
    /\ idx' = 0
    /\ pc' = "loop"
    /\ UNCHANGED <<prog, writer, bbxVars, pipeVars, dictVars, flagVars, vocVars>>

\* faulty variant: the record put in front of those written before
WriteRecordFirst(w, ex) == [w EXCEPT !.records = <<ex>> \o @]

\* line 170
WriteRecord(w, ex) == [w EXCEPT !.records = Append(@, ex)]

\* lines 158-170: one iteration; an exception of dict_to_tf_example is not caught
RecItem ==
    /\ prog = "rec" /\ pc = "loop" /\ idx < Len(examples_list)
    /\ LET ex == dict_to_tf_example(examples_list[idx + 1], label_map_dict,
                                    ignore_difficult_instances)
       IN  IF ex.ok
           THEN /\ writer' = WriteRecord(writer, ex)
                /\ idx' = idx + 1
                /\ pc' = pc
           ELSE /\ pc' = "aborted"
                /\ UNCHANGED <<writer, idx>>
    /\ UNCHANGED <<prog, examples_list, bbxVars, pipeVars, dictVars, flagVars, vocVars>>

\* line 172
RecClose ==
    /\ prog = "rec" /\ pc = "loop" /\ idx = Len(examples_list)
    /\ writer' = [writer EXCEPT !.closed = @ + 1]
    /\ pc' = "done"
    /\ UNCHANGED <<prog, idx, examples_list, bbxVars, pipeVars, dictVars, flagVars, vocVars>>

Next ==
    \/ VocSetupFails \/ VocReadLines \/ VocSample \/ VocItem \/ VocSummary
    \/ RecOpenWriter \/ RecListDir \/ RecItem \/ RecClose

Spec == Init /\ [][Next]_vars

---------------------------------------------------------------------------
(* Properties of the two main() runs *)

InVocRun == prog = "voc" /\ pc \in {"loop", "done"}
NLines   == Len(lines)

\* the indices of the calls that got directory dir
CalledWith(dir) == {calls[c].idx : c \in {c \in 1..Len(calls) : calls[c].xml_out_dir = dir}}

\* the number of calls that ended with the given outcome
NumOutcome(o) == Cardinality({c \in 1..Len(calls) : calls[c].outcome = o})

\* floor(n * split) for a split p/q >= 0: the k with k <= n*p/q < k + 1
Floor(n, split) ==
    CHOOSE k \in 0..(n * split[1]) :
        k * split[2] <= n * split[1] /\ n * split[1] < (k + 1) * split[2]

SplitInUnitInterval == RLeq(<<0, 1>>, validation_split) /\ RLeq(validation_split, <<1, 1>>)

\* C1: in the JSON->XML run, for a split in [0,1] the sampled validation
\* indices and the other (training) indices partition [0,N), the validation
\* set has floor(N*f) indices, and every index is passed to
\* convert_to_PascalVOC exactly once, with the validation directory iff it
\* is a validation index; such a split never makes the sampling fail.
C1_PartitionTotalDisjoint ==
    /\ (prog = "voc" /\ pc = "aborted") => ~SplitInUnitInterval
    /\ (InVocRun /\ SplitInUnitInterval) =>
         /\ NLines >= 1
         /\ validation_indices \subseteq 0..(NLines - 1)
         /\ Cardinality(validation_indices) = Floor(NLines, validation_split)
         /\ Len(calls) = idx
         /\ \A c \in 1..Len(calls) : calls[c].idx = c - 1
         /\ CalledWith("validation") = validation_indices \cap 0..(idx - 1)
         /\ CalledWith("train") = (0..(idx - 1)) \ validation_indices
         /\ CalledWith("train") \cap CalledWith("validation") = {}
         /\ pc = "done" =>
              /\ idx = NLines
              /\ CalledWith("train") \cup CalledWith("validation") = 0..(NLines - 1)

C1_Witness ==
    /\ prog = "voc" /\ pc = "done" /\ NLines = 3
    /\ validation_split = <<1, 2>>
    /\ validation_indices = {1}
    /\ CalledWith("train") = {0, 2}

\* C5 (as stated): skipped items are counted apart from failed ones, so the
\* count of ignored items reported at the end counts the failed items only.
C5_SkipCountedApart ==
    (prog = "voc" /\ pc = "done") => summary.ignored = NumOutcome("error")

\* C5 (amended): an item with an empty annotation array writes no file and
\* returns False, so it is not counted in success; the run keeps no skip
\* counter: the one "ignored" number of the summary, N - success, counts the
\* skipped items together with the failed ones.
C5_SkipCountedWithErrors ==
    /\ \A c \in 1..Len(calls) :
         LET it == lines[calls[c].idx + 1]
         IN  (it.json = "ok" /\ ~it.null /\ Len(it.annotation) = 0) =>
                 /\ calls[c].outcome = "skipped"
                 /\ ~calls[c].status
    /\ InVocRun => success = NumOutcome("written")
    /\ (prog = "voc" /\ pc = "done") =>
         /\ summary.done = NumOutcome("written")
         /\ summary.ignored = NumOutcome("skipped") + NumOutcome("error")

C5_Witness ==
    /\ prog = "voc" /\ pc = "done"
    /\ NumOutcome("skipped") = 1 /\ NumOutcome("error") = 1 /\ NumOutcome("written") = 1
    /\ summary.ignored = 2

\* what dict_to_tf_example is asked to keep of a file: the objects whose
\* difficult field is not "Unspecified" and that are not difficult
\* instances to be ignored
Kept(obj, ignore) ==
    /\ obj.difficult # Unspecified
    /\ ~(ignore /\ IntOk(obj.difficult) /\ IntVal(obj.difficult) # 0)

RetainedOf(file, ignore) == SelectSeq(file.annotation.object, LAMBDA o : Kept(o, ignore))

HasUnknownLabel(file) ==
    \E k \in 1..Len(RetainedOf(file, ignore_difficult_instances)) :
        RetainedOf(file, ignore_difficult_instances)[k].name.s \notin DOMAIN label_map_dict

InRecRun == prog = "rec" /\ pc \in {"loop", "done", "aborted"}

\* C6: in the XML->record run a retained object whose name is not in the
\* label map makes the run abort at that file: the files gone through have
\* no such object, no record is written for the failing file or a later
\* one, and each record's class ids are the label map applied to its class
\* texts, one by one.
C6_UnknownLabelAborts ==
    InRecRun =>
      /\ \A i \in 1..idx : ~HasUnknownLabel(examples_list[i])
      /\ pc = "done" => idx = Len(examples_list)
      /\ Len(writer.records) = idx
      /\ \A r \in 1..Len(writer.records) :
           LET ex == writer.records[r]
           IN  /\ Len(ex.classes) = Len(ex.classes_text)
               /\ Len(ex.classes) = Len(RetainedOf(examples_list[r], ignore_difficult_instances))
               /\ \A k \in 1..Len(ex.classes) :
                    /\ ex.classes_text[k] \in DOMAIN label_map_dict
                    /\ ex.classes[k] = label_map_dict[ex.classes_text[k]]
               /\ (label_map_dict = CatDog /\ ex.classes_text = <<"cat">>) =>
                    ex.classes = <<1>>

C6_Witness ==
    /\ prog = "rec" /\ pc = "aborted" /\ label_map_dict = CatDog
    /\ idx = 1 /\ Len(examples_list) = 2
    /\ writer.records[1].classes = <<1>>
    /\ writer.records[1].classes_text = <<"cat">>
    /\ HasUnknownLabel(examples_list[2])
    /\ Len(writer.records) = 1

\* whether the second converter can encode a file
Encodes(file) == dict_to_tf_example(file, label_map_dict, ignore_difficult_instances).ok

\* what holds at every point of the two runs for C7
C7_Safety ==
    /\ (prog = "voc" /\ pc = "aborted") => calls = <<>>
    /\ InVocRun =>
         /\ \A c \in 1..Len(calls) : calls[c].idx = c - 1
         /\ Len(calls) = idx
         /\ idx <= NLines
         /\ (pc = "loop" /\ idx = NLines) => ENABLED VocSummary
         /\ summary.printed <=> pc = "done"
         /\ pc = "done" =>
              /\ Len(calls) = NLines
              /\ summary.done = NumOutcome("written")
              /\ summary.ignored = NLines - NumOutcome("written")
    /\ prog = "rec" =>
         /\ ~summary.printed
         /\ \A i \in 1..idx : Encodes(examples_list[i])
         /\ pc = "aborted" =>
              /\ idx < Len(examples_list)
              /\ ~Encodes(examples_list[idx + 1])
              /\ ~ENABLED Next

\* a step of the JSON->XML loop taken at an item goes on to the next item
C7_Step ==
    (prog = "voc" /\ pc = "loop" /\ idx < NLines) =>
        /\ pc' = "loop"
        /\ idx' = idx + 1
        /\ calls' = Append(calls, calls'[idx'])
        /\ calls'[idx'].idx = idx

\* C7: in the JSON->XML run no item stops the run: the items are tried in
\* index order, each once, whatever becomes of an item the run goes on to
\* the next one and after the last one to the summary, and the summary
\* reports success = the number of items whose XML file was written and
\* ignored = N - success.  In the XML->record run the first file that fails
\* ends the run: nothing follows it and no summary is printed.
C7_ItemFailureIsolation == []C7_Safety /\ [][C7_Step]_vars

C7_Witness ==
    /\ prog = "voc" /\ pc = "done" /\ NLines = 3
    /\ lines = <<NoImageLine, OkLine, BadJsonLine>>
    /\ summary = [printed |-> TRUE, done |-> 1, ignored |-> 2]

\* C10: in the XML->record run the writer is opened once, before any file
\* is gone through, and closed once, after the last file, when the run
\* completes; the records written are those of the files before the
\* current one, in listing order, one per file; a run that a file aborts
\* leaves the writer unclosed with the records of the files before it.
C10_WriterLifecycle ==
    /\ (prog = "rec" /\ pc = "start") => writer = NoWriter
    /\ (prog = "rec" /\ pc # "start") => writer.opened = 1
    /\ (prog = "rec" /\ pc = "list") => (writer.records = <<>> /\ writer.closed = 0)
    /\ InRecRun =>
         /\ writer.closed = (IF pc = "done" THEN 1 ELSE 0)
         /\ Len(writer.records) = idx
         /\ \A i \in 1..idx :
              writer.records[i] = dict_to_tf_example(examples_list[i], label_map_dict,
                                                     ignore_difficult_instances)
         /\ pc = "done" => idx = Len(examples_list)
         /\ pc = "aborted" => (idx < Len(examples_list) /\ ~ENABLED RecClose)

C10_Witness ==
    /\ prog = "rec" /\ pc = "done" /\ Len(examples_list) = 2
    /\ examples_list[1] # examples_list[2]
    /\ Len(writer.records) = 2
    /\ writer.records[1] # writer.records[2]
    /\ writer.closed = 1

---------------------------------------------------------------------------
(* Properties of get_xml_for_bbx *)

\* the x (c = 1) or y (c = 2) coordinates of the points
Coords(p, c) == {p.pts[k][c] : k \in 1..Len(p.pts)}
Least(S)     == CHOOSE r \in S : \A q \in S : RLeq(r, q)
Greatest(S)  == CHOOSE r \in S : \A q \in S : RLeq(q, r)

\* the emitted text t is the float k * r
IsFloatOf(t, k, r) == t.kind = "float" /\ t.n * r[2] = k * r[1] * t.d

\* the number an emitted text stands for
Num(t) == <<t.n, t.d>>

BoxOrdered(box) == RLeq(Num(box.xmin), Num(box.xmax)) /\ RLeq(Num(box.ymin), Num(box.ymax))

FourPointCall == bbx_xml.called /\ Len(bbx_data.points.pts) = 4 /\ bbx_data.points.form = "pair"

\* C3: for an entry with four points get_xml_for_bbx emits
\* xmin = width * min(x), xmax = width * max(x), ymin = height * min(y),
\* ymax = height * max(y), hence xmin <= xmax and ymin <= ymax in any order
\* of the points; the 100x200 image with (0.1,0.1),(0.5,0.1),(0.5,0.5),
\* (0.1,0.5) gives 10, 20, 50, 100.
C3_FourPointBox ==
    FourPointCall =>
      LET box == bbx_xml.xml.bndbox
          p   == bbx_data.points
      IN  /\ bbx_xml.ok
          /\ IsFloatOf(box.xmin, width, Least(Coords(p, 1)))
          /\ IsFloatOf(box.xmax, width, Greatest(Coords(p, 1)))
          /\ IsFloatOf(box.ymin, height, Least(Coords(p, 2)))
          /\ IsFloatOf(box.ymax, height, Greatest(Coords(p, 2)))
          /\ BoxOrdered(box)
          /\ (width = 100 /\ height = 200 /\ p = Rect4) =>
               /\ Num(box.xmin) = <<10, 1>> /\ Num(box.ymin) = <<20, 1>>
               /\ Num(box.xmax) = <<50, 1>> /\ Num(box.ymax) = <<100, 1>>

C3_Witness ==
    /\ FourPointCall /\ bbx_xml.ok
    /\ width = 100 /\ height = 200 /\ bbx_data.points = Rect4
    /\ Num(bbx_xml.xml.bndbox.ymax) = <<100, 1>>

\* C8: every box get_xml_for_bbx emits has xmin <= xmax and ymin <= ymax,
\* in the four-point form and in the two-point form, in any order of the
\* points.
C8_EveryBoxOrdered ==
    (bbx_xml.called /\ bbx_xml.ok) => BoxOrdered(bbx_xml.xml.bndbox)

---------------------------------------------------------------------------
(* Properties of dict_to_tf_example *)

NumUnspecified(objs) == Cardinality({k \in 1..Len(objs) : objs[k].difficult = Unspecified})

\* the emitted fraction f is the number of text t divided by k
IsQuotient(f, t, k) == f[1] * t.d * k = t.n * f[2]

\* C4: dict_to_tf_example retains an object iff its difficult field is not
\* "Unspecified" and it is not a difficult instance while
\* ignore_difficult_instances is set; every per-object list of the record
\* returned has one element per retained object, in source order, so that
\* with the flag off the count is the number of objects less the number of
\* "Unspecified" ones.
C4_RetainedObjects ==
    (tf_example.called /\ tf_example.ex.ok) =>
      LET ex == tf_example.ex
          R  == RetainedOf(data, ignore_difficult_instances)
          n  == Len(R)
      IN  /\ Len(ex.xmin) = n /\ Len(ex.ymin) = n /\ Len(ex.xmax) = n /\ Len(ex.ymax) = n
          /\ Len(ex.classes_text) = n /\ Len(ex.classes) = n
          /\ Len(ex.difficult_obj) = n /\ Len(ex.truncated) = n /\ Len(ex.poses) = n
          /\ \A k \in 1..n :
               /\ ex.classes_text[k] = R[k].name.s
               /\ ex.classes[k] = label_map_dict[R[k].name.s]
               /\ ex.difficult_obj[k] = (IF IntVal(R[k].difficult) # 0 THEN 1 ELSE 0)
               /\ ex.truncated[k] = IntVal(R[k].truncated)
               /\ ex.poses[k] = R[k].pose.s
               /\ IsQuotient(ex.xmin[k], R[k].bndbox.xmin, ex.width)
               /\ IsQuotient(ex.ymin[k], R[k].bndbox.ymin, ex.height)
               /\ IsQuotient(ex.xmax[k], R[k].bndbox.xmax, ex.width)
               /\ IsQuotient(ex.ymax[k], R[k].bndbox.ymax, ex.height)
          /\ ~ignore_difficult_instances =>
               n = Len(data.annotation.object) - NumUnspecified(data.annotation.object)

C4_Witness ==
    /\ tf_example.called /\ tf_example.ex.ok
    /\ ~ignore_difficult_instances
    /\ Len(data.annotation.object) = 2
    /\ data.annotation.object[1].difficult = Unspecified
    /\ data.annotation.object[2].difficult = StrInt(1)
    /\ tf_example.ex.classes_text = <<data.annotation.object[2].name.s>>
    /\ tf_example.ex.difficult_obj = <<1>>

---------------------------------------------------------------------------
(* Properties of convert_to_PascalVOC and of the way back *)

Written == xml_file.outcome = "written"

\* the entries that give blocks, and the labels of an entry
Rectangle(bbx) == ~bbx.empty /\ bbx.shape \in {"absent", "rectangle"}
NumLabels(bbx) == IF bbx.label.list THEN Len(bbx.label.names) ELSE 1
LabelAt(bbx, j) == IF bbx.label.list THEN bbx.label.names[j] ELSE bbx.label.name

\* the number of blocks due to the entries before the i-th
RECURSIVE BlocksBefore(_, _)
BlocksBefore(ann, i) ==
    IF i <= 1 THEN 0
    ELSE BlocksBefore(ann, i - 1)
         + (IF Rectangle(ann[i - 1]) THEN NumLabels(ann[i - 1]) ELSE 0)

\* C9: the <object> blocks of a document convert_to_PascalVOC writes are
\* one per (entry, label) pair over the entries that are not empty and have
\* no shape tag or the tag "rectangle", in the order of the entries and
\* then of the labels; a label given as one string counts as a list of
\* one; the blocks of one entry carry the same box; other entries give no
\* block.
C9_BlockPerEntryLabel ==
    Written =>
      LET ann  == item.annotation
          objs == xml_file.xml.object
      IN  /\ Len(ann) > 0
          /\ Len(objs) = BlocksBefore(ann, Len(ann) + 1)
          /\ \A i \in 1..Len(ann) :
               Rectangle(ann[i]) =>
                 \A j \in 1..NumLabels(ann[i]) :
                   LET b == objs[BlocksBefore(ann, i) + j]
                   IN  /\ b.name = Txt(LabelAt(ann[i], j))
                       /\ b.bndbox = objs[BlocksBefore(ann, i) + 1].bndbox
                       /\ b.bndbox = get_xml_for_bbx("", ann[i], item.image.size[1],
                                                     item.image.size[2]).xml.bndbox

C9_Witness ==
    /\ Written /\ Len(item.annotation) = 2
    /\ item.annotation[1] = Entry(FALSE, "polygon", LabelStr("cat"), Rect4)
    /\ item.annotation[2] = Entry(FALSE, "absent", LabelList(<<"cat", "dog">>), Rect2)
    /\ Len(xml_file.xml.object) = 2
    /\ xml_file.xml.object[1].name = Txt("cat")
    /\ xml_file.xml.object[2].name = Txt("dog")
    /\ xml_file.xml.object[1].bndbox = xml_file.xml.object[2].bndbox

\* C2: a record rendered to VOC XML by convert_to_PascalVOC and read back
\* by dict_to_tf_example has the labels of the rendered objects and their
\* boxes, each corner the emitted corner divided by the width (x) or the
\* height (y).
C2_RoundTrip ==
    example.called =>
      LET objs == xml_file.xml.object
          ex   == example.ex
      IN  /\ ex.ok
          /\ {ex.classes_text[k] : k \in 1..Len(ex.classes_text)}
               = {objs[k].name.s : k \in 1..Len(objs)}
          /\ Len(ex.xmin) = Len(objs)
          /\ \A k \in 1..Len(ex.xmin) :
               /\ IsQuotient(ex.xmin[k], objs[k].bndbox.xmin, ex.width)
               /\ IsQuotient(ex.ymin[k], objs[k].bndbox.ymin, ex.height)
               /\ IsQuotient(ex.xmax[k], objs[k].bndbox.xmax, ex.width)
               /\ IsQuotient(ex.ymax[k], objs[k].bndbox.ymax, ex.height)

===========================================================================
